---- MODULE Spec2Model ----
(***************************************************************************)
(* Model of the transaction-logging service (FastAPI + SQLAlchemy on       *)
(* SQLite): the transactions table, the five request handlers, the fraud   *)
(* rule and the background e-mail notifier.                                *)
(*                                                                         *)
(* Values keep the Python type they have in the code where the type        *)
(* decides the behaviour: an id is either a UUID object <<"UUID", k>> or   *)
(* its string form <<"str", k>>; a datetime carries its tzinfo, while the  *)
(* DateTime column of the SQLite dialect stores the wall-clock text only.  *)
(* Amounts are exact integers (no floating-point rounding is modelled).    *)
(***************************************************************************)
EXTENDS Integers, Sequences, FiniteSets, TLC

\* ---------------------------------------------------------------- bounds

\* Largest number of rows the table may hold under Spec.
MaxRows == 2
\* Largest count n passed to /simulate.
MaxN == 2
\* Largest number of rows the table may hold under SpecInsights.
InsightRows == 4

\* Keys a client may put in the id field of a submitted transaction.
ClientIds == 1..MaxRows
\* tzinfo "naive" is a timestamp without an offset; any other value is the
\* offset of an aware one.
WallClock == "2024-01-01 12:00:00.000000"
\* Request bodies enumerated for POST /transactions under Spec: the amount at
\* and just above the threshold, a location on and off the allow-list, a
\* timestamp without and with an offset.
SubmitBodies ==
    {[user_id |-> "42", amount |-> 10000, tzinfo |-> "naive", merchant |-> "Checkers",
      location |-> "Cape Town", category |-> "Groceries"],
     [user_id |-> "42", amount |-> 10001, tzinfo |-> "+02:00", merchant |-> "Checkers",
      location |-> "Durban", category |-> "Groceries"],
     [user_id |-> "42", amount |-> 10000, tzinfo |-> "naive", merchant |-> "Checkers",
      location |-> "London", category |-> "Groceries"]}
\* Request bodies enumerated under SpecInsights: none is flagged as fraud.
InsightBodies ==
    {[user_id |-> "42", amount |-> 100, tzinfo |-> "naive", merchant |-> "Checkers",
      location |-> "Cape Town", category |-> "Groceries"],
     [user_id |-> "42", amount |-> 200, tzinfo |-> "naive", merchant |-> "Checkers",
      location |-> "Cape Town", category |-> "Groceries"],
     [user_id |-> "42", amount |-> 50, tzinfo |-> "naive", merchant |-> "Uber",
      location |-> "Cape Town", category |-> "Transport"],
     [user_id |-> "42", amount |-> 100, tzinfo |-> "naive", merchant |-> "Checkers",
      location |-> "Cape Town", category |-> "Transport"],
     [user_id |-> "7", amount |-> 200, tzinfo |-> "naive", merchant |-> "Uber",
      location |-> "Cape Town", category |-> "Groceries"],
     [user_id |-> "7", amount |-> 50, tzinfo |-> "naive", merchant |-> "Checkers",
      location |-> "Cape Town", category |-> "Transport"]}
\* Users asked about at GET /insights: "100" never has a transaction.
InsightUsers == {"42", "7", "100"}
\* Draws of the random generators of /simulate that are enumerated.
SimDraws ==
    {[user_id |-> "100", amount |-> 10, merchant |-> "Uber",
      location |-> "Cape Town", category |-> "Transport"],
     [user_id |-> "999", amount |-> 20000, merchant |-> "Netflix",
      location |-> "London", category |-> "Entertainment"]}
\* Outcomes of the SMTP transport: delivered, or any exception.
SmtpOutcomes == {"sent", "exception"}

VARIABLES
    db,                    \* rows of the transactions table, in rowid order
    background_tasks,      \* notifier tasks scheduled by submit
    response,              \* the HTTP response of the last request
    returned,              \* history: the bodies of the successful submits
    before,                \* history: the table and the number of scheduled
                           \* tasks when the last request began
    EMAIL_ALERTS_ENABLED   \* configuration flag of the notifier

vars == <<db, background_tasks, response, returned, before, EMAIL_ALERTS_ENABLED>>

\* ------------------------------------------------------- values and types

\* uuid.UUID object with key k, and str(uuid), its canonical text.
UUID(k) == <<"UUID", k>>
str(u) == <<"str", u[2]>>
\* UUID(text): pydantic parses the stored text back into a UUID object.
ParseUUID(s) == <<"UUID", s[2]>>

\* uuid4(): an identifier no stored row and no member of `used` carries. Ids
\* are opaque, so the lowest unused key stands for any fresh value.
uuid4(used) == UUID(CHOOSE k \in 1..(Cardinality(used) + 1) : k \notin used)

\* Keys of the ids stored in a table.
StoredKeys(table) == {table[i].id[2] : i \in 1..Len(table)}

\* The pydantic schema: a validated request body or generated record.
Transaction(id, user_id, amount, timestamp, merchant, location, category, is_fraud) ==
    [id |-> id, user_id |-> user_id, amount |-> amount, currency |-> "ZAR",
     timestamp |-> timestamp, merchant |-> merchant, location |-> location,
     category |-> category, is_fraud |-> is_fraud]

\* ------------------------------------------------------------ fraud rule

detect_fraud_ge(transaction) ==
    IF transaction.amount >= 10000 THEN TRUE
    ELSE IF transaction.location \notin {"Cape Town", "Johannesburg", "Durban"} THEN TRUE
    ELSE FALSE

detect_fraud(transaction) ==
    IF transaction.amount > 10000 THEN TRUE
    ELSE IF transaction.location \notin {"Cape Town", "Johannesburg", "Durban"} THEN TRUE
    ELSE FALSE

\* ------------------------------------------------------- storage adapter

\* The ORM object submit builds: every column named, the id as text.
TransactionDB_submit(tx) == [tx EXCEPT !.id = str(tx.id)]
\* The ORM object simulate builds from tx.dict(): the id stays a UUID object.
TransactionDB_simulate(tx) == tx

\* sqlite3 binds str (and int, float, bytes, None); it has no adapter for a
\* UUID object, and the String column type converts nothing.
SqliteSupported(v) == v[1] = "str"

\* DateTime column, bind side: the wall-clock fields are formatted, the
\* tzinfo is not stored.  Result side: the text parses to a naive datetime.
DateTimeBind(ts) == ts.wall
DateTimeResult(text) == [wall |-> text, tzinfo |-> "naive"]

\* The row written for an ORM object.
BindRow(obj) == [obj EXCEPT !.timestamp = DateTimeBind(obj.timestamp)]

RECURSIVE BindRows(_)
BindRows(objs) ==
    IF objs = <<>> THEN <<>> ELSE <<BindRow(Head(objs))>> \o BindRows(Tail(objs))

\* id is the primary key: an INSERT of a key already present, or present
\* twice in the batch, violates the constraint.
NoPrimaryKey(table, objs) == FALSE

PrimaryKeyConflict(table, objs) ==
    \/ \E i \in 1..Len(objs) : objs[i].id[2] \in StoredKeys(table)
    \/ \E i, j \in 1..Len(objs) : i < j /\ objs[i].id[2] = objs[j].id[2]

\* db.merge in place of db.add: a row whose key is present is overwritten.
CommitMerge(table, objs) ==
    IF \E i \in 1..Len(objs) : ~SqliteSupported(objs[i].id)
    THEN [error |-> "InterfaceError", table |-> table]
    ELSE IF Len(objs) = 1 /\ objs[1].id[2] \in StoredKeys(table)
    THEN [error |-> "",
          table |-> [i \in 1..Len(table) |->
                        IF table[i].id = objs[1].id THEN BindRow(objs[1]) ELSE table[i]]]
    ELSE [error |-> "", table |-> table \o BindRows(objs)]

\* db.add(...) for each object, then db.commit(): one transaction, all rows
\* or none.  A parameter sqlite3 cannot bind raises before any INSERT runs
\* (InterfaceError, ProgrammingError from Python 3.12 on); a duplicate key
\* raises IntegrityError.  Neither handler catches: the request ends in a 500.
Commit(table, objs) ==
    IF \E i \in 1..Len(objs) : ~SqliteSupported(objs[i].id)
    THEN [error |-> "InterfaceError", table |-> table]
    ELSE IF PrimaryKeyConflict(table, objs)
    THEN [error |-> "IntegrityError", table |-> table]
    ELSE [error |-> "", table |-> table \o BindRows(objs)]

\* Transaction(**row.__dict__): the loaded row as a pydantic record.
RowToTransaction(row) ==
    [row EXCEPT !.id = ParseUUID(row.id), !.timestamp = DateTimeResult(row.timestamp)]

RECURSIVE RowsToTransactions(_)
RowsToTransactions(rows) ==
    IF rows = <<>> THEN <<>>
    ELSE <<RowToTransaction(Head(rows))>> \o RowsToTransactions(Tail(rows))

\* query(TransactionDB).filter(<column> == value).all()
RECURSIVE FilterRows(_, _, _)
FilterRows(rows, column, value) ==
    IF rows = <<>> THEN <<>>
    ELSE (IF Head(rows)[column] = value THEN <<Head(rows)>> ELSE <<>>)
         \o FilterRows(Tail(rows), column, value)

\* ---------------------------------------------------------------- notifier

\* A scheduled call of send_email_alert(tx), not yet run.
BackgroundTask(tx) == [tx |-> tx, state |-> "scheduled", attempts |-> 0]

send_email_alert_retry(enabled, task, smtp) ==
    IF ~enabled THEN [task EXCEPT !.state = "skipped", !.attempts = @ + 1]
    ELSE IF smtp = "sent" THEN [task EXCEPT !.state = "sent", !.attempts = @ + 1]
    ELSE [task EXCEPT !.attempts = @ + 1]

\* send_email_alert: a no-op when alerts are disabled; otherwise one SMTP
\* attempt whose exception is caught and logged.
send_email_alert(enabled, task, smtp) ==
    IF ~enabled THEN [task EXCEPT !.state = "skipped", !.attempts = @ + 1]
    ELSE IF smtp = "sent" THEN [task EXCEPT !.state = "sent", !.attempts = @ + 1]
    ELSE [task EXCEPT !.state = "error_logged", !.attempts = @ + 1]

\* `if tx.is_fraud:` guarding background_tasks.add_task in submit.
AlertAlways(tx) == TRUE

AlertWanted(tx) == tx.is_fraud

\* ---------------------------------------------------------------- insights

\* A Python dict: its keys in insertion order and its values.
EmptyDict == [keys |-> <<>>, vals |-> <<>>]
DictGet(d, k, default) == IF k \in DOMAIN d.vals THEN d.vals[k] ELSE default
DictSet(d, k, v) ==
    [keys |-> IF k \in DOMAIN d.vals THEN d.keys ELSE Append(d.keys, k),
     vals |-> (k :> v) @@ d.vals]

\* sum(t.amount for t in txs)
RECURSIVE SumAmounts(_)
SumAmounts(txs) ==
    IF txs = <<>> THEN 0 ELSE Head(txs).amount + SumAmounts(Tail(txs))

\* The loop filling by_category and recurring, from the dicts so far.
RECURSIVE Accumulate(_, _, _)
Accumulate(txs, by_category, recurring) ==
    IF txs = <<>> THEN [by_category |-> by_category, recurring |-> recurring]
    ELSE LET t == Head(txs)
         IN Accumulate(Tail(txs),
                DictSet(by_category, t.category,
                        DictGet(by_category, t.category, 0) + t.amount),
                DictSet(recurring, t.merchant,
                        DictGet(recurring, t.merchant, 0) + 1))

\* [m for m, count in recurring.items() if count > 2]
RECURSIVE CommonFrom(_, _)
CommonFrom(keys, recurring) ==
    IF keys = <<>> THEN <<>>
    ELSE (IF recurring.vals[Head(keys)] > 2 THEN <<Head(keys)>> ELSE <<>>)
         \o CommonFrom(Tail(keys), recurring)

common_merchants_ge2(recurring) ==
    SelectSeq(recurring.keys, LAMBDA m : recurring.vals[m] >= 2)

common_merchants(recurring) == CommonFrom(recurring.keys, recurring)

\* max(by_category, key=by_category.get): the first key, in insertion
\* order, whose value no other exceeds; ValueError on an empty dict.
MaxKeyOrDefault(d) ==
    IF d.keys = <<>> THEN [error |-> "", key |-> ""]
    ELSE LET i == CHOOSE i \in 1..Len(d.keys) :
                    /\ \A j \in 1..Len(d.keys) : d.vals[d.keys[j]] <= d.vals[d.keys[i]]
                    /\ \A j \in 1..(i - 1) : d.vals[d.keys[j]] < d.vals[d.keys[i]]
         IN [error |-> "", key |-> d.keys[i]]

MaxKey(d) ==
    IF d.keys = <<>> THEN [error |-> "ValueError", key |-> ""]
    ELSE LET i == CHOOSE i \in 1..Len(d.keys) :
                    /\ \A j \in 1..Len(d.keys) : d.vals[d.keys[j]] <= d.vals[d.keys[i]]
                    /\ \A j \in 1..(i - 1) : d.vals[d.keys[j]] < d.vals[d.keys[i]]
         IN [error |-> "", key |-> d.keys[i]]

\* ---------------------------------------------------------------- handlers

\* .filter(TransactionDB.id == str(tx_id)) of get_transaction.
QueryUnfiltered(table, tx_id) == table

QueryById(table, tx_id) == FilterRows(table, "id", str(tx_id))

\* What the history variable `before` records as a request begins.
Snapshot == [db |-> db, scheduled |-> Len(background_tasks)]

NoResponse == [op |-> "none", status |-> 0, error |-> "", req |-> <<>>, body |-> <<>>]

Init ==
    /\ db = <<>>
    /\ background_tasks = <<>>
    /\ response = NoResponse
    /\ returned = <<>>
    /\ before = [db |-> <<>>, scheduled |-> 0]
    \* False as shipped; "Set True to enable email alerts".
    /\ EMAIL_ALERTS_ENABLED \in BOOLEAN

\* POST /transactions.  id 0 stands for a body without an id (uuid4 default).
submit_transaction(ids, bodies, cap) ==
    \E id \in ids, b \in bodies, client_flag \in BOOLEAN :
        LET body == Transaction(
                        IF id = 0 THEN uuid4(StoredKeys(db)) ELSE UUID(id),
                        b.user_id, b.amount, [wall |-> WallClock, tzinfo |-> b.tzinfo],
                        b.merchant, b.location, b.category, client_flag)
            tx == [body EXCEPT !.is_fraud = detect_fraud(body)]
            res == Commit(db, <<TransactionDB_submit(tx)>>)
        IN  /\ res.error # "" \/ Len(db) < cap
            /\ before' = Snapshot
            /\ db' = res.table
            /\ IF res.error = ""
               THEN /\ background_tasks' =
                         IF AlertWanted(tx)
                         THEN Append(background_tasks, BackgroundTask(tx))
                         ELSE background_tasks
                    /\ returned' = Append(returned, tx)
                    /\ response' = [op |-> "submit", status |-> 200, error |-> "",
                                     req |-> [id |-> body.id, is_fraud |-> client_flag],
                                     body |-> tx]
               ELSE /\ UNCHANGED <<background_tasks, returned>>
                    /\ response' = [op |-> "submit", status |-> 500, error |-> res.error,
                                     req |-> [id |-> body.id, is_fraud |-> client_flag],
                                     body |-> <<>>]
            /\ UNCHANGED EMAIL_ALERTS_ENABLED

SubmitRequest == submit_transaction(ClientIds \cup {0}, SubmitBodies, MaxRows)

SubmitInsightRequest == submit_transaction({0}, InsightBodies, InsightRows)

\* GET /transactions
get_transactions ==
    /\ before' = Snapshot
    /\ response' = [op |-> "list", status |-> 200, error |-> "", req |-> <<>>,
                     body |-> RowsToTransactions(db)]
    /\ UNCHANGED <<db, background_tasks, returned, EMAIL_ALERTS_ENABLED>>

\* GET /transactions/{tx_id}
get_transaction ==
    \E k \in 1..(MaxRows + 1) :
        LET tx_id == UUID(k)
            found == QueryById(db, tx_id)
        IN  /\ before' = Snapshot
            /\ response' =
                  IF found = <<>>
                  THEN [op |-> "get", status |-> 404, error |-> "Transaction not found",
                        req |-> tx_id, body |-> <<>>]
                  ELSE [op |-> "get", status |-> 200, error |-> "",
                        req |-> tx_id, body |-> RowToTransaction(found[1])]
            /\ UNCHANGED <<db, background_tasks, returned, EMAIL_ALERTS_ENABLED>>

\* The n records the loop of /simulate builds, each with a fresh uuid4 id and
\* the fraud flag computed, as the ORM objects handed to db.add.
RECURSIVE SimulatedObjects(_, _)
SimulatedObjects(draws, used) ==
    IF draws = <<>> THEN <<>>
    ELSE LET d == Head(draws)
             body == Transaction(uuid4(used), d.user_id, d.amount,
                                 [wall |-> WallClock, tzinfo |-> "naive"],
                                 d.merchant, d.location, d.category, FALSE)
             tx == [body EXCEPT !.is_fraud = detect_fraud(body)]
         IN <<TransactionDB_simulate(tx)>>
            \o SimulatedObjects(Tail(draws), used \cup {tx.id[2]})

\* POST /simulate?n=
simulate_transactions ==
    \E n \in (-1)..MaxN :
      \E draws \in [1..(IF n > 0 THEN n ELSE 0) -> SimDraws] :
        LET res == Commit(db, SimulatedObjects(draws, StoredKeys(db)))
        IN  /\ res.error # "" \/ Len(res.table) <= MaxRows
            /\ before' = Snapshot
            /\ db' = res.table
            /\ response' =
                  IF res.error = ""
                  THEN [op |-> "simulate", status |-> 200, error |-> "", req |-> n,
                        body |-> <<n, " transactions simulated.">>]
                  ELSE [op |-> "simulate", status |-> 500, error |-> res.error,
                        req |-> n, body |-> <<>>]
            /\ UNCHANGED <<background_tasks, returned, EMAIL_ALERTS_ENABLED>>

\* GET /insights/{user_id}
user_insights(users) ==
    \E user_id \in users :
        LET txs == FilterRows(db, "user_id", user_id)
            total_spent == SumAmounts(txs)
            acc == Accumulate(txs, EmptyDict, EmptyDict)
            top == MaxKey(acc.by_category)
        IN  /\ before' = Snapshot
            /\ response' =
                  IF top.error # ""
                  THEN [op |-> "insights", status |-> 500, error |-> top.error,
                        req |-> user_id, body |-> <<>>]
                  ELSE [op |-> "insights", status |-> 200, error |-> "", req |-> user_id,
                        body |-> [user_id |-> user_id,
                                  total_spent |-> total_spent,
                                  by_category |-> acc.by_category,
                                  recurring_merchants |-> common_merchants(acc.recurring),
                                  advice |-> <<"Consider budgeting for high-spend categories like ",
                                               top.key>>]]
            /\ UNCHANGED <<db, background_tasks, returned, EMAIL_ALERTS_ENABLED>>

InsightsRequest == user_insights({"42", "7"})

InsightsOfInsightUsers == user_insights(InsightUsers)

\* A scheduled notifier task runs, after the response of its request.
RunBackgroundTask ==
    \E i \in 1..Len(background_tasks), smtp \in SmtpOutcomes :
        /\ background_tasks[i].state = "scheduled"
        /\ background_tasks' =
              [background_tasks EXCEPT
                 ![i] = send_email_alert(EMAIL_ALERTS_ENABLED, background_tasks[i], smtp)]
        /\ UNCHANGED <<db, response, returned, before, EMAIL_ALERTS_ENABLED>>

Next ==
    \/ SubmitRequest
    \/ get_transactions
    \/ get_transaction
    \/ simulate_transactions
    \/ InsightsRequest
    \/ RunBackgroundTask

Spec == Init /\ [][Next]_vars

\* Submissions of non-flagged transactions with generated ids, and insights.
NextInsights ==
    \/ SubmitInsightRequest
    \/ InsightsOfInsightUsers

SpecInsights == Init /\ [][NextInsights]_vars

\* ---------------------------------------------------------------- properties

AllowList == {"Cape Town", "Johannesburg", "Durban"}

\* table1 is a leading part of table2, row for row.
IsPrefix(table1, table2) ==
    /\ Len(table1) <= Len(table2)
    /\ \A i \in 1..Len(table1) : table2[i] = table1[i]

\* Indices of the stored rows of a user.
RowsOf(user_id) == {i \in 1..Len(db) : db[i].user_id = user_id}

RECURSIVE AmountOver(_)
AmountOver(S) ==
    IF S = {} THEN 0
    ELSE LET i == CHOOSE i \in S : TRUE IN db[i].amount + AmountOver(S \ {i})

\* C1: every stored transaction is flagged exactly when its amount exceeds
\* 10000 or its location is off the allow-list, whatever flag the client
\* sent; a stored transaction of exactly 10000 at an allow-listed location is
\* not flagged, and the body a submit returns carries the stored flag.
C1_FraudRuleStored ==
    /\ \A i \in 1..Len(db) :
          /\ db[i].is_fraud <=> (db[i].amount > 10000 \/ db[i].location \notin AllowList)
          /\ (db[i].amount = 10000 /\ db[i].location \in AllowList) => ~db[i].is_fraud
    /\ (response.op = "submit" /\ response.status = 200) =>
          /\ Len(db) = Len(before.db) + 1
          /\ db[Len(db)].id = str(response.req.id)
          /\ response.body.is_fraud = db[Len(db)].is_fraud

\* C1 witness: a submit that sent is_fraud = true for amount 10000 at an
\* allow-listed location was stored unflagged, next to a flagged row.
C1_Witness ==
    /\ response.op = "submit" /\ response.status = 200
    /\ response.req.is_fraud = TRUE
    /\ db[Len(db)].amount = 10000 /\ db[Len(db)].location \in AllowList
    /\ db[Len(db)].is_fraud = FALSE
    /\ \E i \in 1..Len(db) : db[i].is_fraud

\* C2 (as claimed): a get by id answers with exactly the fields the submit
\* of that id returned.
C2_RoundTripIdentical ==
    (response.op = "get" /\ response.status = 200) =>
        \E i \in 1..Len(returned) :
            /\ returned[i].id = response.req
            /\ response.body = returned[i]

\* C3: no two stored rows share an id, and every step leaves each stored row
\* in place and unchanged: the table only grows at its end.
C3_AppendOnlyUniqueIds ==
    /\ [](\A i, j \in 1..Len(db) : i # j => db[i].id # db[j].id)
    /\ [][IsPrefix(db, db')]_vars

\* C3 witness: with two rows stored, a read or simulate request has run.
C3_Witness ==
    /\ Len(db) = 2
    /\ response.op \in {"list", "get", "simulate", "insights"}
    /\ before.db = db

\* C4: a submit whose id is already stored fails with the integrity
\* (conflict) error: no success, the table is as it was, no task is scheduled.
C4_DuplicateIdRejected ==
    (response.op = "submit" /\ response.req.id[2] \in StoredKeys(before.db)) =>
        /\ response.status = 500
        /\ response.error = "IntegrityError"
        /\ db = before.db
        /\ Len(background_tasks) = before.scheduled

\* C4 witness: a duplicate-id submit was rejected while the stored row with
\* that id, unflagged, stays and nothing is scheduled.
C4_Witness ==
    /\ response.op = "submit" /\ response.status = 500
    /\ \E i \in 1..Len(db) :
          db[i].id = str(response.req.id) /\ ~db[i].is_fraud
    /\ background_tasks = <<>>

\* C5: every notifier task carries a flagged transaction that a submit
\* returned and that is in the table; a submit of an unflagged transaction,
\* a rejected submit and a simulate schedule nothing.
C5_NotifierOnlyForCommittedFraud ==
    /\ \A t \in 1..Len(background_tasks) :
          /\ background_tasks[t].tx.is_fraud
          /\ \E i \in 1..Len(returned) : returned[i] = background_tasks[t].tx
          /\ \E i \in 1..Len(db) :
                db[i].id = str(background_tasks[t].tx.id) /\ db[i].is_fraud
    /\ (response.op = "submit" /\ response.status = 200 /\ ~response.body.is_fraud)
          => Len(background_tasks) = before.scheduled
    /\ response.op = "simulate" => Len(background_tasks) = before.scheduled

\* C5 witness: one task, already run, for a flagged row, none for the other row,
\* and a simulate of at least one transaction has just run.
C5_Witness ==
    /\ Len(background_tasks) = 1
    /\ background_tasks[1].state # "scheduled"
    /\ Len(db) = 2
    /\ response.op = "simulate" /\ response.req >= 1

\* C6: a step that runs a notifier task changes neither the table, nor the
\* response, nor what submit returned; the task ends skipped, sent or with
\* its error logged after exactly one attempt, and a task that has run never
\* changes again.
C6_NotifierOutcomeIsolated ==
    [][\A t \in 1..Len(background_tasks) :
          (t <= Len(background_tasks') /\ background_tasks'[t] # background_tasks[t]) =>
              /\ background_tasks[t].state = "scheduled"
              /\ background_tasks[t].attempts = 0
              /\ background_tasks'[t].state \in {"skipped", "sent", "error_logged"}
              /\ background_tasks'[t].attempts = 1
              /\ background_tasks'[t].tx = background_tasks[t].tx
              /\ Len(background_tasks') = Len(background_tasks)
              /\ UNCHANGED <<db, response, returned>>]_vars

\* C6 witness: the send failed, and the response is still the successful
\* submit of that transaction, which is still stored.
C6_Witness ==
    \E t \in 1..Len(background_tasks) :
        /\ background_tasks[t].state = "error_logged"
        /\ response.op = "submit" /\ response.status = 200
        /\ response.body = background_tasks[t].tx
        /\ str(response.body.id)[2] \in StoredKeys(db)

\* C7 (as claimed): a simulate with count n >= 0 answers with the message
\* for n and leaves exactly n new rows after the unchanged old ones, each
\* with a fresh id and the flag the fraud rule gives it.
C7_SimulateAddsN ==
    (response.op = "simulate" /\ response.req >= 0) =>
        /\ response.status = 200
        /\ response.body = <<response.req, " transactions simulated.">>
        /\ Len(db) = Len(before.db) + response.req
        /\ IsPrefix(before.db, db)
        /\ \A i \in (Len(before.db) + 1)..Len(db) :
              /\ db[i].id[2] \notin StoredKeys(before.db)
              /\ db[i].is_fraud <=> (db[i].amount > 10000 \/ db[i].location \notin AllowList)

\* C8: a get by id answers not-found exactly when no stored row has the id,
\* otherwise it answers with that row's id; the table is as it was.
C8_GetByIdNotFound ==
    response.op = "get" =>
        /\ response.status = 404 <=> response.req[2] \notin StoredKeys(db)
        /\ response.status \in {200, 404}
        /\ response.status = 200 => response.body.id = response.req
        /\ db = before.db

\* C8 witness: not-found for an id that is not stored while another id is.
C8_Witness ==
    /\ response.op = "get" /\ response.status = 404
    /\ Len(db) >= 1
    /\ \E k \in StoredKeys(db) : k < response.req[2]

\* C9: for a user with stored transactions, insights answers with the sum
\* of that user's amounts, the per-category sums of exactly the user's
\* categories (adding up to the total), the merchants found in three or more
\* of the user's transactions, each once, and an advice naming a category
\* with the largest sum; the table is as it was.
C9_InsightsOfUser ==
    (response.op = "insights" /\ RowsOf(response.req) # {}) =>
        LET R == RowsOf(response.req)
            out == response.body
            cats == {db[i].category : i \in R}
            InCat(c) == {i \in R : db[i].category = c}
            Times(m) == Cardinality({i \in R : db[i].merchant = m})
            listed == {out.recurring_merchants[j] : j \in 1..Len(out.recurring_merchants)}
        IN  /\ response.status = 200
            /\ out.user_id = response.req
            /\ out.total_spent = AmountOver(R)
            /\ DOMAIN out.by_category.vals = cats
            /\ \A c \in cats : out.by_category.vals[c] = AmountOver(InCat(c))
            /\ listed = {m \in {db[i].merchant : i \in R} : Times(m) >= 3}
            /\ Cardinality(listed) = Len(out.recurring_merchants)
            /\ out.advice[2] \in cats
            /\ \A c \in cats : out.by_category.vals[c] <= out.by_category.vals[out.advice[2]]
            /\ db = before.db

\* C9 witness: a merchant is listed as recurring, the user spent in two
\* categories, and another user has a stored transaction.
C9_Witness ==
    /\ response.op = "insights" /\ response.status = 200
    /\ response.body.recurring_merchants # <<>>
    /\ Cardinality(DOMAIN response.body.by_category.vals) = 2
    /\ \E i \in 1..Len(db) : db[i].user_id # response.req

\* C10: for a user without stored transactions, insights fails with the
\* error of max() on the empty by_category, returns no summary, and leaves
\* the table as it was.
C10_InsightsEmptyHistoryRaises ==
    (response.op = "insights" /\ RowsOf(response.req) = {}) =>
        /\ response.status = 500
        /\ response.error = "ValueError"
        /\ response.body = <<>>
        /\ db = before.db

\* C10 witness: insights failed for a user without transactions while other
\* users have some.
C10_Witness ==
    /\ response.op = "insights" /\ response.status = 500
    /\ Len(db) >= 1
    /\ RowsOf(response.req) = {}

====
